---- MODULE Spec2Model ----
(***************************************************************************)
(* graphwalker_sqlalchemy.extract: the vertex pass, the edge pass and the  *)
(* label pass over a hierarchy of mapped classes, as a state machine.      *)
(* The recursion of _r_extract_vertices and _r_extract_edges is kept on an *)
(* explicit call stack; Python's insertion-ordered dicts are sequences.    *)
(***************************************************************************)
EXTENDS Naturals, Sequences, FiniteSets, TLC

(* ---------------- bounds of the model graph ---------------- *)
NumTypes == 4
MaxRels == 2
MaxSubLinks == 4
\* size of a hierarchy: one per subclass link, three per relationship
MaxSize == 6

(* ---------------- the reflected classes ---------------- *)
\* __module__ and __name__ of the classes of the hierarchy, in definition order
ModelClasses ==
  << [module |-> "app.models", name |-> "A"],
     [module |-> "app.models", name |-> "B"],
     [module |-> "app.legacy", name |-> "A"],
     [module |-> "app.models", name |-> "C"],
     [module |-> "app.legacy", name |-> "B"],
     [module |-> "app.models", name |-> "D"] >>

Types == 1..NumTypes

\* relationship names, listed in lexicographic (str) order
RelationNames == << "author", "editor" >>

\* relation.direction.name: two members of the enumeration and a symbol outside it
Directions == { "MANYTOONE", "ONETOMANY", "UNKNOWN" }

None == "None"

VARIABLES
  root_orm_class,    \* argument of extract
  fq_vertex_labels,  \* argument of extract
  relationships,     \* class -> mapper.relationships, in key order
  subclasses,        \* class -> cls.__subclasses__()
  vertex_map,        \* dict id -> vertex, in insertion order
  visited,           \* set of qualified names (edge pass)
  edge_map,          \* dict id -> edge, in insertion order
  stack,             \* frames of the running recursive calls, innermost first
  pc,                \* position inside extract
  label_idx,         \* position of the label loop in edge_map.values()
  result,            \* value returned by extract
  expanded           \* history: how often each pass went past its guard per class

vars == << root_orm_class, fq_vertex_labels, relationships, subclasses,
           vertex_map, visited, edge_map, stack, pc, label_idx, result, expanded >>

inputs == << root_orm_class, fq_vertex_labels, relationships, subclasses >>

(* ---------------- pure helpers ---------------- *)
_RELATION_TYPE_MAP ==
  [k \in {"MANYTOMANY", "MANYTOONE", "ONETOMANY", "ONETOONE", "inheritance"} |->
     CASE k = "MANYTOMANY" -> "*..*"
       [] k = "MANYTOONE" -> "*..1"
       [] k = "ONETOMANY" -> "1..*"
       [] k = "ONETOONE" -> "1..1"
       [] k = "inheritance" -> "1..1"]

\* hashlib.sha1(v).hexdigest(): a digest, injective on the keys of one run
_make_hash_id(v) == "sha1:" \o v

get_class_name(cls) == ModelClasses[cls].name

\* variant: the key leaves the module out
get_vertex_key_NameOnly(cls) == get_class_name(cls)

get_vertex_key(cls) == ModelClasses[cls].module \o "." \o get_class_name(cls)

_iter_relationship_properties(cls) == relationships[cls]

_get_relation_target(relation) == relation.target

\* '{}({},{})'.format(relation_type, source, dest)
edge_qname(relation_type, source_qname, dest_qname) ==
  relation_type \o "(" \o source_qname \o "," \o dest_qname \o ")"

\* dict lookups on the insertion-ordered maps
HasId(map, id) == \E n \in 1..Len(map) : map[n].id = id
IndexOfId(map, id) == CHOOSE n \in 1..Len(map) : map[n].id = id

Frame(fn, cls) == [fn |-> fn, cls |-> cls, phase |-> "enter", i |-> 1]
Top == stack[1]
Pop == Tail(stack)
ReplaceTop(f) == <<f>> \o Tail(stack)

(* ---------------- the hierarchies extract is run on ---------------- *)
RECURSIVE SetToSeq(_)
\* a set of classes in definition order, as __subclasses__() lists them
SetToSeq(S) ==
  IF S = {} THEN << >>
  ELSE LET m == CHOOSE x \in S : \A y \in S : x <= y
       IN << m >> \o SetToSeq(S \ {m})

\* a subclass is defined after its bases
SubLinkPool == { l \in Types \X Types : l[1] < l[2] }

RelDecl == [src : Types, name : { RelationNames[n] : n \in 1..Len(RelationNames) },
            target : Types, direction : Directions]

\* the names of the declarations of class t in l
NamesIn(l, t) == { l[k].name : k \in { j \in 1..Len(l) : l[j].src = t } }

\* n declarations in declaration order; a mapper holds one relationship per name,
\* and a class names its relationships with the first names of the pool, in any
\* order
RelLists ==
  [n \in { k \in 0..MaxRels : 3 * k <= MaxSize } |->
     { l \in [1..n -> RelDecl] :
         /\ \A a, b \in 1..n : (a # b) => (l[a].src # l[b].src \/ l[a].name # l[b].name)
         /\ \A t \in Types :
              NamesIn(l, t) = { RelationNames[k] : k \in 1..Cardinality(NamesIn(l, t)) } }]

\* the sets of at most k subclass links
LinkSets == [k \in 0..MaxSubLinks |->
               { links \in SUBSET SubLinkPool : Cardinality(links) <= k }]

Min(a, b) == IF a < b THEN a ELSE b

Relationship(d) ==
  [name |-> d.name, target |-> d.target, direction |-> d.direction,
   backref |-> None, _is_self_referential |-> (d.src = d.target)]

RelationshipsOf(l, t) ==
  LET mine == SelectSeq(l, LAMBDA d : d.src = t)
  IN [n \in 1..Len(mine) |-> Relationship(mine[n])]

RECURSIVE Closure(_, _, _)
\* the classes linked to S by relationship targets and immediate subclasses
Closure(S, rels, subs) ==
  LET step == S \cup UNION { { rels[t][n].target : n \in 1..Len(rels[t]) }
                              \cup { subs[t][n] : n \in 1..Len(subs[t]) } : t \in S }
  IN IF step = S THEN S ELSE Closure(step, rels, subs)

Init ==
  /\ root_orm_class = 1
  /\ fq_vertex_labels \in BOOLEAN
  /\ \E n \in DOMAIN RelLists :
       \E links \in LinkSets[Min(MaxSubLinks, MaxSize - 3 * n)], l \in RelLists[n] :
         /\ subclasses = [t \in Types |-> SetToSeq({ c \in Types : << t, c >> \in links })]
         /\ relationships = [t \in Types |-> RelationshipsOf(l, t)]
         \* extract reads nothing of a class it cannot reach, and the classes it
         \* reaches are numbered first
         /\ LET reach == Closure({ root_orm_class }, relationships, subclasses)
            IN /\ reach = 1..Cardinality(reach)
               /\ \A t \in Types \ reach :
                    subclasses[t] = << >> /\ relationships[t] = << >>
  /\ vertex_map = << >>
  /\ visited = {}
  /\ edge_map = << >>
  /\ stack = << Frame("vertices", root_orm_class) >>
  /\ pc = "vertices"
  /\ label_idx = 1
  /\ result = None
  /\ expanded = [p \in {"vertices", "edges"} |-> [t \in Types |-> 0]]

(* ---------------- _r_extract_vertices ---------------- *)
Vertex(cls, fq) ==
  [id |-> _make_hash_id(get_vertex_key(cls)),
   label |-> IF fq THEN get_vertex_key(cls) ELSE get_class_name(cls),
   searchableComponents |-> << get_class_name(cls) >>,
   properties |-> [model_name |-> get_class_name(cls),
                   module_name |-> ModelClasses[cls].module]]

InVertices(phase) ==
  /\ pc = "vertices"
  /\ stack # << >>
  /\ Top.fn = "vertices"
  /\ Top.phase = phase

\* the id is already in vertex_map: return
VertexGuard ==
  /\ InVertices("enter")
  /\ HasId(vertex_map, _make_hash_id(get_vertex_key(Top.cls)))
  /\ stack' = Pop
  /\ UNCHANGED << inputs, vertex_map, visited, edge_map, pc, label_idx, result, expanded >>

\* first visit: store the vertex
VertexStore ==
  /\ InVertices("enter")
  /\ ~ HasId(vertex_map, _make_hash_id(get_vertex_key(Top.cls)))
  /\ vertex_map' = Append(vertex_map, Vertex(Top.cls, fq_vertex_labels))
  /\ stack' = ReplaceTop([Top EXCEPT !.phase = "recurse", !.i = 1])
  /\ expanded' = [expanded EXCEPT !["vertices"][Top.cls] = @ + 1]
  /\ UNCHANGED << inputs, visited, edge_map, pc, label_idx, result >>

\* variant: the relationship loop does not recurse into the target
VertexRecurseRelationship_Skip ==
  /\ InVertices("recurse")
  /\ Top.i <= Len(_iter_relationship_properties(Top.cls))
  /\ stack' = ReplaceTop([Top EXCEPT !.i = @ + 1])
  /\ UNCHANGED << inputs, vertex_map, visited, edge_map, pc, label_idx, result, expanded >>

\* for _, child_class in _iter_relationship_properties(cls): recurse into the target
VertexRecurseRelationship ==
  /\ InVertices("recurse")
  /\ Top.i <= Len(_iter_relationship_properties(Top.cls))
  /\ stack' = << Frame("vertices",
                       _get_relation_target(_iter_relationship_properties(Top.cls)[Top.i])) >>
                \o ReplaceTop([Top EXCEPT !.i = @ + 1])
  /\ UNCHANGED << inputs, vertex_map, visited, edge_map, pc, label_idx, result, expanded >>

\* for child_class in cls.__subclasses__(): recurse
VertexRecurseSubclass ==
  /\ InVertices("recurse")
  /\ LET r == Len(_iter_relationship_properties(Top.cls))
     IN /\ Top.i > r
        /\ Top.i <= r + Len(subclasses[Top.cls])
        /\ stack' = << Frame("vertices", subclasses[Top.cls][Top.i - r]) >>
                      \o ReplaceTop([Top EXCEPT !.i = @ + 1])
  /\ UNCHANGED << inputs, vertex_map, visited, edge_map, pc, label_idx, result, expanded >>

\* both loops are exhausted: return
VertexReturn ==
  /\ InVertices("recurse")
  /\ Top.i > Len(_iter_relationship_properties(Top.cls)) + Len(subclasses[Top.cls])
  /\ stack' = Pop
  /\ UNCHANGED << inputs, vertex_map, visited, edge_map, pc, label_idx, result, expanded >>

\* edge_map = {}; visited = set(); _r_extract_edges(root_orm_class, visited, edge_map)
ExtractEdges ==
  /\ pc = "vertices"
  /\ stack = << >>
  /\ edge_map' = << >>
  /\ visited' = {}
  /\ stack' = << Frame("edges", root_orm_class) >>
  /\ pc' = "edges"
  /\ UNCHANGED << inputs, vertex_map, label_idx, result, expanded >>

(* ---------------- _r_extract_edges ---------------- *)
InEdges(phase) ==
  /\ pc = "edges"
  /\ stack # << >>
  /\ Top.fn = "edges"
  /\ Top.phase = phase

\* the call of extract returns when the outermost frame does
AfterEdgeReturn == IF Pop = << >> THEN "labels" ELSE pc

field_properties(relation) ==
  [name |-> relation.name,
   back_reference |-> relation.backref,
   source_columns |-> << relation.name \o "_id" >>,
   dest_columns |-> << "id" >>]

\* variant: the flag is the constant of the inheritance branch
RelationshipEdge_NotSelfReferential(cls, relation) ==
  LET source_qualified_model_name == get_vertex_key(cls)
      dest_qualified_model_name == get_vertex_key(_get_relation_target(relation))
      relation_type == relation.direction
  IN [id |-> _make_hash_id(edge_qname(relation_type, source_qualified_model_name,
                                      dest_qualified_model_name)),
      label |-> None,
      source |-> _make_hash_id(source_qualified_model_name),
      dest |-> _make_hash_id(dest_qualified_model_name),
      properties |-> [type |-> relation_type,
                      is_self_referential |-> FALSE,
                      fields |-> << field_properties(relation) >>,
                      multiplicity |-> _RELATION_TYPE_MAP[relation_type]]]

RelationshipEdge(cls, relation) ==
  LET source_qualified_model_name == get_vertex_key(cls)
      dest_qualified_model_name == get_vertex_key(_get_relation_target(relation))
      relation_type == relation.direction
  IN [id |-> _make_hash_id(edge_qname(relation_type, source_qualified_model_name,
                                      dest_qualified_model_name)),
      label |-> None,
      source |-> _make_hash_id(source_qualified_model_name),
      dest |-> _make_hash_id(dest_qualified_model_name),
      properties |-> [type |-> relation_type,
                      is_self_referential |-> relation._is_self_referential,
                      fields |-> << field_properties(relation) >>,
                      multiplicity |-> _RELATION_TYPE_MAP[relation_type]]]

\* existing_edge['properties']['fields'][relation_name] = field_properties
SetField(fields, fp) ==
  IF \E n \in 1..Len(fields) : fields[n].name = fp.name
  THEN [n \in 1..Len(fields) |-> IF fields[n].name = fp.name THEN fp ELSE fields[n]]
  ELSE Append(fields, fp)

InheritanceEdge(cls, child_class) ==
  LET source_qualified_model_name == get_vertex_key(cls)
      dest_qualified_model_name == get_vertex_key(child_class)
  IN [id |-> _make_hash_id(edge_qname("inheritance", source_qualified_model_name,
                                      dest_qualified_model_name)),
      label |-> None,
      source |-> _make_hash_id(source_qualified_model_name),
      dest |-> _make_hash_id(dest_qualified_model_name),
      properties |-> [type |-> "inheritance", is_self_referential |-> FALSE]]

\* the qualified name is in visited: return
EdgeGuard ==
  /\ InEdges("enter")
  /\ get_vertex_key(Top.cls) \in visited
  /\ stack' = Pop
  /\ pc' = AfterEdgeReturn
  /\ UNCHANGED << inputs, vertex_map, visited, edge_map, label_idx, result, expanded >>

\* variant: the name is checked but never added to visited
EdgeVisit_NoAdd ==
  /\ InEdges("enter")
  /\ get_vertex_key(Top.cls) \notin visited
  /\ stack' = ReplaceTop([Top EXCEPT !.phase = "body", !.i = 1])
  /\ expanded' = [expanded EXCEPT !["edges"][Top.cls] = @ + 1]
  /\ UNCHANGED << inputs, vertex_map, visited, edge_map, pc, label_idx, result >>

\* visited.add(source_qualified_model_name)
EdgeVisit ==
  /\ InEdges("enter")
  /\ get_vertex_key(Top.cls) \notin visited
  /\ visited' = visited \cup { get_vertex_key(Top.cls) }
  /\ stack' = ReplaceTop([Top EXCEPT !.phase = "body", !.i = 1])
  /\ expanded' = [expanded EXCEPT !["edges"][Top.cls] = @ + 1]
  /\ UNCHANGED << inputs, vertex_map, edge_map, pc, label_idx, result >>

\* the relationship the loop of the innermost frame is at
CurrentRelation == _iter_relationship_properties(Top.cls)[Top.i]
CurrentEdgeId ==
  _make_hash_id(edge_qname(CurrentRelation.direction, get_vertex_key(Top.cls),
                           get_vertex_key(_get_relation_target(CurrentRelation))))

AtRelationship ==
  /\ InEdges("body")
  /\ Top.i <= Len(_iter_relationship_properties(Top.cls))

\* no edge with this id yet: create it with a single-entry fields map
EdgeCreate ==
  /\ AtRelationship
  /\ ~ HasId(edge_map, CurrentEdgeId)
  /\ CurrentRelation.direction \in DOMAIN _RELATION_TYPE_MAP
  /\ edge_map' = Append(edge_map, RelationshipEdge(Top.cls, CurrentRelation))
  /\ stack' = ReplaceTop([Top EXCEPT !.i = @ + 1])
  /\ UNCHANGED << inputs, vertex_map, visited, pc, label_idx, result, expanded >>

\* _RELATION_TYPE_MAP[relation_type] raises KeyError, which leaves extract
EdgeKeyError ==
  /\ AtRelationship
  /\ ~ HasId(edge_map, CurrentEdgeId)
  /\ CurrentRelation.direction \notin DOMAIN _RELATION_TYPE_MAP
  /\ stack' = << >>
  /\ pc' = "raised"
  /\ UNCHANGED << inputs, vertex_map, visited, edge_map, label_idx, result, expanded >>

\* variant: an edge with this id exists, and a second one is stored
EdgeMerge_AppendsEdge ==
  /\ AtRelationship
  /\ HasId(edge_map, CurrentEdgeId)
  /\ edge_map' = Append(edge_map, RelationshipEdge(Top.cls, CurrentRelation))
  /\ stack' = ReplaceTop([Top EXCEPT !.i = @ + 1])
  /\ UNCHANGED << inputs, vertex_map, visited, pc, label_idx, result, expanded >>

\* an edge with this id exists: add the relationship to its fields
EdgeMerge ==
  /\ AtRelationship
  /\ HasId(edge_map, CurrentEdgeId)
  /\ LET n == IndexOfId(edge_map, CurrentEdgeId)
     IN edge_map' = [edge_map EXCEPT ![n].properties.fields =
                       SetField(@, field_properties(CurrentRelation))]
  /\ stack' = ReplaceTop([Top EXCEPT !.i = @ + 1])
  /\ UNCHANGED << inputs, vertex_map, visited, pc, label_idx, result, expanded >>

\* for child_class in cls.__subclasses__(): one inheritance edge, if absent
EdgeInheritance ==
  /\ InEdges("body")
  /\ LET r == Len(_iter_relationship_properties(Top.cls))
         s == Len(subclasses[Top.cls])
     IN /\ Top.i > r
        /\ Top.i <= r + s
        /\ LET edge == InheritanceEdge(Top.cls, subclasses[Top.cls][Top.i - r])
           IN edge_map' = IF HasId(edge_map, edge.id) THEN edge_map
                          ELSE Append(edge_map, edge)
  /\ stack' = ReplaceTop([Top EXCEPT !.i = @ + 1])
  /\ UNCHANGED << inputs, vertex_map, visited, pc, label_idx, result, expanded >>

\* for child_class in cls.__subclasses__(): recurse
EdgeRecurse ==
  /\ InEdges("body")
  /\ LET r == Len(_iter_relationship_properties(Top.cls))
         s == Len(subclasses[Top.cls])
     IN /\ Top.i > r + s
        /\ Top.i <= r + s + s
        /\ stack' = << Frame("edges", subclasses[Top.cls][Top.i - r - s]) >>
                      \o ReplaceTop([Top EXCEPT !.i = @ + 1])
  /\ UNCHANGED << inputs, vertex_map, visited, edge_map, pc, label_idx, result, expanded >>

\* the three loops are exhausted: return
EdgeReturn ==
  /\ InEdges("body")
  /\ Top.i > Len(_iter_relationship_properties(Top.cls)) + 2 * Len(subclasses[Top.cls])
  /\ stack' = Pop
  /\ pc' = AfterEdgeReturn
  /\ UNCHANGED << inputs, vertex_map, visited, edge_map, label_idx, result, expanded >>

(* ---------------- extract: labels and result ---------------- *)
\* position of a relationship name in str order
Rank(name) == CHOOSE n \in 1..Len(RelationNames) : RelationNames[n] = name

\* variant: the keys are joined in insertion order
sorted_Unsorted(names) == names

RECURSIVE sorted(_)
\* sorted(names): insertion sort on str order
sorted(names) ==
  IF names = << >> THEN << >>
  ELSE LET rest == sorted(Tail(names))
           k == Head(names)
           before == SelectSeq(rest, LAMBDA x : Rank(x) < Rank(k))
           after == SelectSeq(rest, LAMBDA x : ~ (Rank(x) < Rank(k)))
       IN before \o << k >> \o after

RECURSIVE join(_, _)
\* sep.join(strs)
join(sep, strs) ==
  IF strs = << >> THEN ""
  ELSE IF Len(strs) = 1 THEN strs[1]
  ELSE strs[1] \o sep \o join(sep, Tail(strs))

keys(fields) == [n \in 1..Len(fields) |-> fields[n].name]

\* edge['properties'].get('multiplicity')
get_multiplicity(properties) ==
  IF "multiplicity" \in DOMAIN properties THEN properties.multiplicity ELSE None

compute_label(edge) ==
  IF edge.properties.type = "inheritance" THEN "inheritance"
  ELSE LET label == join(", ", sorted(keys(edge.properties.fields)))
           multiplicity == get_multiplicity(edge.properties)
       IN IF multiplicity # None THEN label \o " (" \o multiplicity \o ")" ELSE label

\* for edge in edge_map.values(): edge['label'] = label
ExtractLabel ==
  /\ pc = "labels"
  /\ label_idx <= Len(edge_map)
  /\ edge_map' = [edge_map EXCEPT ![label_idx].label = compute_label(edge_map[label_idx])]
  /\ label_idx' = label_idx + 1
  /\ UNCHANGED << inputs, vertex_map, visited, stack, pc, result, expanded >>

\* return {'vertices': list(vertex_map.values()), 'edges': list(edge_map.values())}
ExtractReturn ==
  /\ pc = "labels"
  /\ label_idx > Len(edge_map)
  /\ result' = [vertices |-> vertex_map, edges |-> edge_map]
  /\ pc' = "returned"
  /\ UNCHANGED << inputs, vertex_map, visited, edge_map, stack, label_idx, expanded >>

Next ==
  \/ VertexGuard
  \/ VertexStore
  \/ VertexRecurseRelationship
  \/ VertexRecurseSubclass
  \/ VertexReturn
  \/ ExtractEdges
  \/ EdgeGuard
  \/ EdgeVisit
  \/ EdgeCreate
  \/ EdgeKeyError
  \/ EdgeMerge
  \/ EdgeInheritance
  \/ EdgeRecurse
  \/ EdgeReturn
  \/ ExtractLabel
  \/ ExtractReturn

Spec == Init /\ [][Next]_vars

\* a single thread runs extract to its end
FairSpec == Spec /\ WF_vars(Next)

(* ---------------- vocabulary of the properties ---------------- *)
Returned == pc = "returned"

FourKinds == { "MANYTOMANY", "MANYTOONE", "ONETOMANY", "ONETOONE" }

VertexIdOf(t) == _make_hash_id(get_vertex_key(t))

\* the class a vertex id stands for
TypeOfId(id) == CHOOSE t \in Types : VertexIdOf(t) = id

RelsOf(t) == { relationships[t][n] : n \in 1..Len(relationships[t]) }
SubsOf(t) == { subclasses[t][n] : n \in 1..Len(subclasses[t]) }
Range(seq) == { seq[n] : n \in 1..Len(seq) }

\* the classes linked to the root by relationship targets and subclass links
Reachable == Closure({ root_orm_class }, relationships, subclasses)

IsRelationshipEdge(e) == e.properties.type # "inheritance"
FieldNames(e) == { e.properties.fields[n].name : n \in 1..Len(e.properties.fields) }

AllDirectionsKnown == \A t \in Types : \A r \in RelsOf(t) : r.direction \in FourKinds

\* a and b each declare one relationship, to the other; nothing else is declared
TwoCycle(a, b) ==
  /\ a # b
  /\ Len(relationships[a]) = 1 /\ relationships[a][1].target = b
  /\ Len(relationships[b]) = 1 /\ relationships[b][1].target = a
  /\ \A t \in Types \ { a, b } : relationships[t] = << >>
  /\ \A t \in Types : subclasses[t] = << >>

(* C1: for a 2-cycle A <-> B without subtypes, extract(A) returns exactly 2     *)
(* vertices and exactly 2 relationship edges, one A->B and one B->A.            *)
C1_TwoCycleTwoEdges ==
  \A b \in Types :
    (TwoCycle(root_orm_class, b) /\ AllDirectionsKnown) =>
      /\ pc # "raised"
      /\ Returned =>
           /\ Len(result.vertices) = 2
           /\ Len(result.edges) = 2
           /\ \E e \in Range(result.edges) :
                IsRelationshipEdge(e) /\ e.source = VertexIdOf(root_orm_class)
                                      /\ e.dest = VertexIdOf(b)
           /\ \E e \in Range(result.edges) :
                IsRelationshipEdge(e) /\ e.source = VertexIdOf(b)
                                      /\ e.dest = VertexIdOf(root_orm_class)

(* C2: the returned graph holds, for every class with a vertex, an edge for     *)
(* each of its relationships (type, source, dest, a fields entry under the      *)
(* relationship's name) and an inheritance edge to each immediate subclass.     *)
C2_AllEdgesOfAllVertices ==
  Returned =>
    \A v \in Range(result.vertices) :
      LET t == TypeOfId(v.id)
      IN /\ \A r \in RelsOf(t) :
              \E e \in Range(result.edges) :
                /\ e.properties.type = r.direction
                /\ e.source = v.id
                /\ e.dest = VertexIdOf(r.target)
                /\ "fields" \in DOMAIN e.properties
                /\ r.name \in FieldNames(e)
         /\ \A c \in SubsOf(t) :
              \E e \in Range(result.edges) :
                /\ e.properties.type = "inheritance"
                /\ e.source = v.id
                /\ e.dest = VertexIdOf(c)

IsInheritanceEdgeOf(e, p, c) ==
  /\ e.properties.type = "inheritance"
  /\ e.source = VertexIdOf(p)
  /\ e.dest = VertexIdOf(c)

(* C4: for every class P the edge pass visited and every immediate subclass C,  *)
(* the result holds exactly one inheritance edge P -> C, labelled "inheritance",*)
(* not self-referential, of multiplicity "1..1" and without a fields map.       *)
C4_InheritanceEdges ==
  Returned =>
    \A p \in Types : \A c \in SubsOf(p) :
      get_vertex_key(p) \in visited =>
        /\ Cardinality({ n \in 1..Len(result.edges) :
                           IsInheritanceEdgeOf(result.edges[n], p, c) }) = 1
        /\ \A e \in Range(result.edges) :
             IsInheritanceEdgeOf(e, p, c) =>
               /\ e.label = "inheritance"
               /\ e.properties.is_self_referential = FALSE
               /\ "fields" \notin DOMAIN e.properties
               /\ get_multiplicity(e.properties) = "1..1"

(* C8: when a relationship of a class reachable from the root has a direction   *)
(* outside the four kinds, extract raises and returns no graph.                 *)
C8_UnknownDirectionRaises ==
  (\E t \in Reachable : \E r \in RelsOf(t) : r.direction \notin FourKinds) =>
    (~ Returned /\ result = None)

(* C3: at every point the edge map holds at most one edge per (type, source,   *)
(* dest); a relationship with a new triple appends one edge with a single-entry *)
(* fields map, a relationship with a known triple adds one fields entry to that *)
(* edge and changes nothing else; in the end an edge's fields hold exactly the  *)
(* names of the source class's relationships with that triple.                  *)
EdgeTriplesUnique ==
  \A m, n \in 1..Len(edge_map) :
    ( /\ edge_map[m].properties.type = edge_map[n].properties.type
      /\ edge_map[m].source = edge_map[n].source
      /\ edge_map[m].dest = edge_map[n].dest ) => m = n

FieldsComplete ==
  \A e \in Range(edge_map) :
    IsRelationshipEdge(e) =>
      /\ FieldNames(e) = { r.name : r \in { x \in RelsOf(TypeOfId(e.source)) :
                                              /\ x.direction = e.properties.type
                                              /\ VertexIdOf(x.target) = e.dest } }
      /\ Len(e.properties.fields) = Cardinality(FieldNames(e))

FoldStep ==
  (AtRelationship /\ pc' # "raised") =>
    LET r == CurrentRelation
        Same(e) == /\ e.properties.type = r.direction
                   /\ e.source = VertexIdOf(Top.cls)
                   /\ e.dest = VertexIdOf(r.target)
        old == { n \in 1..Len(edge_map) : Same(edge_map[n]) }
    IN IF old = {}
       THEN /\ Len(edge_map') = Len(edge_map) + 1
            /\ SubSeq(edge_map', 1, Len(edge_map)) = edge_map
            /\ Same(edge_map'[Len(edge_map')])
            /\ keys(edge_map'[Len(edge_map')].properties.fields) = << r.name >>
       ELSE /\ Len(edge_map') = Len(edge_map)
            /\ \A n \in 1..Len(edge_map) :
                 IF n \in old
                 THEN /\ edge_map'[n].id = edge_map[n].id
                      /\ edge_map'[n].source = edge_map[n].source
                      /\ edge_map'[n].dest = edge_map[n].dest
                      /\ edge_map'[n].properties.type = edge_map[n].properties.type
                      /\ edge_map'[n].properties.multiplicity
                           = edge_map[n].properties.multiplicity
                      /\ edge_map'[n].properties.fields
                           = Append(edge_map[n].properties.fields, field_properties(r))
                 ELSE edge_map'[n] = edge_map[n]

\* C3: one edge per (type, source, dest) at every point; a fold step creates a
\* single-field edge or adds one field; the final fields are complete
C3_OneEdgePerTriple ==
  /\ [](EdgeTriplesUnique /\ (pc \in { "labels", "returned" } => FieldsComplete))
  /\ [][FoldStep]_vars

C3_Witness ==
  /\ Returned
  /\ \E e \in Range(result.edges) :
       IsRelationshipEdge(e) /\ Len(e.properties.fields) = 2

(* C5: no edge has a label while the vertex or edge pass runs; once an edge has *)
(* a label its properties (fields included) never change; in the result a      *)
(* relationship edge is labelled with its field names in sorted order joined by *)
(* ", " and followed by " (<multiplicity>)", an inheritance edge "inheritance". *)
IsSortedSeq(names) ==
  \A i, j \in 1..Len(names) : i < j => Rank(names[i]) < Rank(names[j])

ExpectedLabel(e) ==
  IF ~ IsRelationshipEdge(e) THEN "inheritance"
  ELSE LET names == CHOOSE q \in [1..Cardinality(FieldNames(e)) -> FieldNames(e)] :
                      Range(q) = FieldNames(e) /\ IsSortedSeq(q)
       IN join(", ", names) \o " (" \o e.properties.multiplicity \o ")"

LabelsUnsetDuringExtraction ==
  pc \in { "vertices", "edges" } => \A e \in Range(edge_map) : e.label = None

LabelledEdgeFrozen ==
  \A n \in 1..Len(edge_map) :
    edge_map[n].label # None =>
      /\ n <= Len(edge_map')
      /\ edge_map'[n].properties = edge_map[n].properties

ResultLabels ==
  Returned =>
    \A e \in Range(result.edges) :
      /\ e.label = ExpectedLabel(e)
      /\ ( /\ IsRelationshipEdge(e)
           /\ FieldNames(e) = { "author", "editor" }
           /\ e.properties.multiplicity = "*..1" ) => e.label = "author, editor (*..1)"

\* C5: labels are unset during extraction, set after the last merge, and are the
\* sorted joined field names with the multiplicity, or "inheritance"
C5_LabelsAfterExtraction ==
  /\ [](LabelsUnsetDuringExtraction /\ ResultLabels)
  /\ [][LabelledEdgeFrozen]_vars

C5_Witness ==
  /\ Returned
  /\ \E e \in Range(result.edges) :
       /\ IsRelationshipEdge(e)
       /\ keys(e.properties.fields) = << "editor", "author" >>
       /\ e.label = "author, editor (*..1)"

(* C6: extract terminates (returns or raises) on every hierarchy, cyclic ones   *)
(* included; a vertex frame whose id is in the vertex map returns at once, an   *)
(* edge frame does its work only with its name in visited, and each pass goes   *)
(* past its guard at most once per class.                                       *)
Done == pc \in { "returned", "raised" }

ExpandedOnce ==
  \A p \in { "vertices", "edges" } : \A t \in Types : expanded[p][t] <= 1

EdgeFramesVisited ==
  \A n \in 1..Len(stack) :
    (stack[n].fn = "edges" /\ stack[n].phase = "body") =>
      get_vertex_key(stack[n].cls) \in visited

VertexGuardStops ==
  ( /\ InVertices("enter")
    /\ \E v \in Range(vertex_map) : v.id = VertexIdOf(Top.cls) ) =>
      (stack' = Tail(stack) /\ vertex_map' = vertex_map)

\* C6: extract terminates, and each pass expands a class at most once
C6_Terminates ==
  /\ <>Done
  /\ [](ExpandedOnce /\ EdgeFramesVisited)
  /\ [][VertexGuardStops]_vars

C6_Witness ==
  /\ Returned
  /\ \E b \in Types \ { root_orm_class } :
       /\ \E r \in RelsOf(root_orm_class) : r.target = b
       /\ \E r \in RelsOf(b) : r.target = root_orm_class

(* C7: the returned vertices are, one each, the classes reachable from the root *)
(* through relationship targets and immediate subclasses; a stored vertex is    *)
(* never changed or replaced; a diamond A, B, C, D gives exactly 4 vertices.    *)
ClassOfVertex(v) == [module |-> v.properties.module_name, name |-> v.properties.model_name]

VerticesUnique ==
  \A m, n \in 1..Len(vertex_map) :
    ClassOfVertex(vertex_map[m]) = ClassOfVertex(vertex_map[n]) => m = n

ResultVertices ==
  Returned =>
    /\ { ClassOfVertex(v) : v \in Range(result.vertices) }
         = { ModelClasses[t] : t \in Reachable }
    /\ Len(result.vertices) = Cardinality(Reachable)

Diamond ==
  \E a, b, c, d \in Types :
    /\ Cardinality({ a, b, c, d }) = 4
    /\ a = root_orm_class
    /\ SubsOf(a) = { b, c } /\ SubsOf(b) = { d } /\ SubsOf(c) = { d } /\ SubsOf(d) = {}
    /\ \A t \in Types : relationships[t] = << >>

FirstVisitWins ==
  /\ Len(vertex_map') >= Len(vertex_map)
  /\ SubSeq(vertex_map', 1, Len(vertex_map)) = vertex_map

\* C7: exactly one vertex per reachable class, first visit wins, a diamond gives 4
C7_OneVertexPerReachableClass ==
  /\ [](VerticesUnique /\ ResultVertices /\ ((Returned /\ Diamond) => Len(result.vertices) = 4))
  /\ [][FirstVisitWins]_vars

C7_Witness == Returned /\ Diamond /\ Len(result.vertices) = 4

(* C9: a root whose only relationship targets the root itself, without          *)
(* subclasses, gives 1 vertex and 1 edge, self-referential, from and to it.     *)
SelfOnly ==
  /\ Len(relationships[root_orm_class]) = 1
  /\ relationships[root_orm_class][1].target = root_orm_class
  /\ subclasses[root_orm_class] = << >>

C9_SelfReference ==
  (Returned /\ SelfOnly) =>
    /\ Len(result.vertices) = 1
    /\ Len(result.edges) = 1
    /\ result.edges[1].properties.is_self_referential = TRUE
    /\ result.edges[1].source = result.vertices[1].id
    /\ result.edges[1].dest = result.vertices[1].id

C9_Witness == Returned /\ SelfOnly /\ Len(result.edges) = 1

(* C10: in the result, the source and the dest of every edge are ids of         *)
(* returned vertices.                                                           *)
C10_EndpointsAreVertices ==
  Returned =>
    \A e \in Range(result.edges) :
      /\ \E v \in Range(result.vertices) : v.id = e.source
      /\ \E v \in Range(result.vertices) : v.id = e.dest

C10_Witness ==
  /\ Returned
  /\ \E e \in Range(result.edges) :
       /\ IsRelationshipEdge(e)
       /\ e.source # e.dest
       /\ get_vertex_key(TypeOfId(e.dest)) \notin visited

====
